---- MODULE Spec2Model ----
(***************************************************************************)
(* Model of the machine-inventory normalization service (src/main.py):     *)
(* the mapping cache (load_mappings), the field resolver (get_field,       *)
(* safe_lambda, normalize_cpu) and the POST /machines handler              *)
(* (post_machines) with the record store it inserts into.                  *)
(*                                                                         *)
(* Python values are tagged records of one shape.  Strings are sequences   *)
(* of one-character strings, so that lower(), split() and float() are      *)
(* computed character by character.  A Python float is kept as an integer  *)
(* count of 1/1024ths (every float the handler can produce from the        *)
(* integer and integer-string inputs drawn here is such a multiple), so    *)
(* that x / 1024 is exact.                                                 *)
(***************************************************************************)
EXTENDS Integers, Sequences, FiniteSets, TLC

\* ---------------------------------------------------------------- bounds
MaxItems == 2      \* the longest array payload
MaxStore == 1      \* requests start while the store holds fewer records than
                   \* this (post_machines never reads the store)
MaxMtime == 3      \* the latest modification time the mappings file gets
MaxReloads == 2    \* the load_mappings calls of the other handlers

\* ------------------------------------------------------ program constants
KIB_PER_GIB == 1024   \* the divisor of the kib-to-gib transform

\* ------------------------------------------------------- string literals
LAMBDA_PREFIX == <<"l", "a", "m", "b", "d", "a", " ">>
LAMBDA_RAM == <<"l", "a", "m", "b", "d", "a", " ", "d", "a", "t", "a", ":", " ", "i", "n", "t", "(", "d", "a", "t", "a", "[", "'", "R", "A", "M", "'", "]", ".", "s", "p", "l", "i", "t", "(", ")", "[", "0", "]", ")">>
LAMBDA_MEM == <<"l", "a", "m", "b", "d", "a", " ", "d", "a", "t", "a", ":", " ", "i", "n", "t", "(", "d", "a", "t", "a", "[", "'", "m", "e", "m", "'", "]", ")", " ", "/", " ", "1", "0", "2", "4">>
LAMBDA_MEMORY_GB == <<"l", "a", "m", "b", "d", "a", " ", "d", "a", "t", "a", ":", " ", "i", "n", "t", "(", "d", "a", "t", "a", "[", "'", "m", "e", "m", "o", "r", "y", "_", "g", "b", "'", "]", ")">>
LAMBDA_OTHER == <<"l", "a", "m", "b", "d", "a", " ", "d", "a", "t", "a", ":", " ", "d", "a", "t", "a", "[", "'", "x", "'", "]">>
K_RAM == <<"R", "A", "M">>
K_memory == <<"m", "e", "m", "o", "r", "y">>
K_mem == <<"m", "e", "m">>
K_ram == <<"r", "a", "m">>
K_Memory == <<"M", "e", "m", "o", "r", "y">>
K_memory_gb == <<"m", "e", "m", "o", "r", "y", "_", "g", "b">>
K_os == <<"o", "s">>
K_Os == <<"O", "s">>
K_oS == <<"o", "S">>
K_OS == <<"O", "S">>
K_cpu_model == <<"c", "p", "u", "_", "m", "o", "d", "e", "l">>
K_OperatingSystem == <<"O", "p", "e", "r", "a", "t", "i", "n", "g", "S", "y", "s", "t", "e", "m">>
K_operating_system == <<"o", "p", "e", "r", "a", "t", "i", "n", "g", "_", "s", "y", "s", "t", "e", "m">>
K_operatingsystem == <<"o", "p", "e", "r", "a", "t", "i", "n", "g", "s", "y", "s", "t", "e", "m">>
K_OPERATINGSYSTEM == <<"O", "P", "E", "R", "A", "T", "I", "N", "G", "S", "Y", "S", "T", "E", "M">>
K_CPU == <<"C", "P", "U">>
K_osName == <<"o", "s", "N", "a", "m", "e">>
K_OSName == <<"O", "S", "N", "a", "m", "e">>
K_processor == <<"p", "r", "o", "c", "e", "s", "s", "o", "r">>
S_Ubuntu == <<"U", "b", "u", "n", "t", "u">>
S_Xeon == <<"X", "e", "o", "n">>
S_64GB == <<"6", "4", " ", "G", "B">>
S_bad == <<"b", "a", "d">>
S_64 == <<"6", "4">>
S_invalid_item == <<"i", "n", "v", "a", "l", "i", "d", "_", "i", "t", "e", "m">>

\* ---------------------------------------------------------- Python values
\* t: "null" | "int" | "float" | "str" | "list" | "dict"
\* n: the integer (int), or the count of 1/1024ths (float)
\* s: the characters (str);  l: the elements (list)
\* o: the <<key, value>> pairs in insertion order (dict)
None == [t |-> "null", n |-> 0, s |-> <<>>, l |-> <<>>, o |-> <<>>]
PyInt(n) == [None EXCEPT !.t = "int", !.n = n]
PyFlt(f) == [None EXCEPT !.t = "float", !.n = f]
PyStrV(s) == [None EXCEPT !.t = "str", !.s = s]
PyList(l) == [None EXCEPT !.t = "list", !.l = l]
PyDict(o) == [None EXCEPT !.t = "dict", !.o = o]

\* key in data / data[key] / the keys in iteration order
HasKey(data, key) == \E i \in DOMAIN data.o : data.o[i][1] = key
GetItem(data, key) == data.o[CHOOSE i \in DOMAIN data.o : data.o[i][1] = key][2]
Keys(data) == [i \in DOMAIN data.o |-> data.o[i][1]]

\* bool(v)
Truthy(v) ==
  CASE v.t = "null" -> FALSE
    [] v.t = "int" -> v.n # 0
    [] v.t = "float" -> v.n # 0
    [] v.t = "str" -> Len(v.s) > 0
    [] v.t = "list" -> Len(v.l) > 0
    [] v.t = "dict" -> Len(v.o) > 0

\* type(v).__name__
TypeName(v) == IF v.t = "null" THEN "NoneType" ELSE v.t

\* isinstance(v, (int, float))
IsNumber(v) == v.t \in {"int", "float"}

\* the outcome of an evaluation: a value, or a raised exception
Ok(v) == [ok |-> TRUE, val |-> v, exc |-> "", msg |-> ""]
Raise(exc, msg) == [ok |-> FALSE, val |-> None, exc |-> exc, msg |-> msg]

\* ------------------------------------------------------- string builtins
UPPER == <<"A", "B", "C", "D", "E", "F", "G", "H", "I", "J", "K", "L", "M", "N", "O", "P", "Q", "R", "S", "T", "U", "V", "W", "X", "Y", "Z">>
LOWER == <<"a", "b", "c", "d", "e", "f", "g", "h", "i", "j", "k", "l", "m", "n", "o", "p", "q", "r", "s", "t", "u", "v", "w", "x", "y", "z">>
DIGITS == <<"0", "1", "2", "3", "4", "5", "6", "7", "8", "9">>
WHITESPACE == {" "}

IndexIn(seq, c) == CHOOSE i \in DOMAIN seq : seq[i] = c
IsIn(seq, c) == \E i \in DOMAIN seq : seq[i] = c

\* str.lower(), one character and a whole string
LowerChar(c) == IF IsIn(UPPER, c) THEN LOWER[IndexIn(UPPER, c)] ELSE c
Lower(s) == [i \in DOMAIN s |-> LowerChar(s[i])]

\* s.startswith(prefix)
StartsWith(s, prefix) ==
  /\ Len(s) >= Len(prefix)
  /\ SubSeq(s, 1, Len(prefix)) = prefix

\* the characters as one message string
RECURSIVE Text(_)
Text(s) == IF s = <<>> THEN "" ELSE Head(s) \o Text(Tail(s))

\* str(n) for an integer
RECURSIVE NatChars(_)
NatChars(n) == IF n < 10 THEN <<DIGITS[n + 1]>> ELSE NatChars(n \div 10) \o <<DIGITS[(n % 10) + 1]>>
IntChars(n) == IF n < 0 THEN <<"-">> \o NatChars(-n) ELSE NatChars(n)

\* s.strip()
RECURSIVE LStrip(_)
LStrip(s) == IF s # <<>> /\ Head(s) \in WHITESPACE THEN LStrip(Tail(s)) ELSE s
RECURSIVE RStrip(_)
RStrip(s) == IF s # <<>> /\ s[Len(s)] \in WHITESPACE THEN RStrip(SubSeq(s, 1, Len(s) - 1)) ELSE s
Strip(s) == RStrip(LStrip(s))

\* s.split(): the whitespace-separated tokens
RECURSIVE TakeToken(_)
TakeToken(s) == IF s = <<>> \/ Head(s) \in WHITESPACE THEN <<>> ELSE <<Head(s)>> \o TakeToken(Tail(s))
RECURSIVE Split(_)
Split(s) ==
  LET r == LStrip(s)
      tok == TakeToken(r)
  IN IF r = <<>> THEN <<>> ELSE <<tok>> \o Split(SubSeq(r, Len(tok) + 1, Len(r)))

\* the value of a digit string
RECURSIVE DigitsValue(_)
DigitsValue(s) == IF s = <<>> THEN 0 ELSE DigitsValue(SubSeq(s, 1, Len(s) - 1)) * 10 + (IndexIn(DIGITS, s[Len(s)]) - 1)
AllDigits(s) == s # <<>> /\ \A i \in DOMAIN s : IsIn(DIGITS, s[i])

\* repr(s) of a string without quotes in it
Repr(s) == "'" \o Text(s) \o "'"

\* float(v): ints, floats and signed digit strings convert; other strings
\* raise ValueError, other types TypeError
PyFloat(v) ==
  CASE v.t = "int" -> Ok(PyFlt(v.n * KIB_PER_GIB))
    [] v.t = "float" -> Ok(v)
    [] v.t = "str" ->
         LET b == Strip(v.s)
             signed == b # <<>> /\ Head(b) \in {"+", "-"}
             d == IF signed THEN Tail(b) ELSE b
             sign == IF signed /\ Head(b) = "-" THEN -1 ELSE 1
         IN IF AllDigits(d)
            THEN Ok(PyFlt(sign * DigitsValue(d) * KIB_PER_GIB))
            ELSE Raise("ValueError", "could not convert string to float: " \o Repr(v.s))
    [] OTHER -> Raise("TypeError", "float() argument must be a string or a real number, not '" \o TypeName(v) \o "'")

\* float(v) / 1024, given the outcome of float(v)
DivKib(f) == IF f.ok THEN Ok(PyFlt(f.val.n \div KIB_PER_GIB)) ELSE f

\* str(v); no dict is ever converted (item values are scalars and lists)
RECURSIVE PyStr(_)
RECURSIVE JoinReprs(_)
JoinReprs(l) ==
  IF l = <<>> THEN <<>>
  ELSE (IF l[1].t = "str" THEN <<"'">> \o l[1].s \o <<"'">> ELSE PyStr(l[1]))
       \o (IF Len(l) > 1 THEN <<",", " ">> ELSE <<>>) \o JoinReprs(Tail(l))
PyStr(v) ==
  CASE v.t = "null" -> <<"N", "o", "n", "e">>
    [] v.t = "int" -> IntChars(v.n)
    [] v.t = "float" -> IntChars(v.n \div KIB_PER_GIB) \o <<".", "0">>
    [] v.t = "str" -> v.s
    [] v.t = "list" -> <<"[">> \o JoinReprs(v.l) \o <<"]">>

\* ------------------------------------------------------------ safe_lambda
\* data[field] as the RAM transform reads it: a number as it is, otherwise
\* the first whitespace-separated token converted by float()
FloatOfFirst(tokens) ==
  IF tokens = <<>>
  THEN Raise("IndexError", "list index out of range")
  ELSE PyFloat(PyStrV(tokens[1]))

\* FirstToken converting the whole value, without split()[0]
FirstTokenWhole(v) == PyFloat(v)

FirstToken(v) ==
  IF IsNumber(v) THEN PyFloat(v)
  ELSE IF v.t # "str"
       THEN Raise("AttributeError", "'" \o TypeName(v) \o "' object has no attribute 'split'")
       ELSE FloatOfFirst(Split(v.s))

\* the fallback field names of the RAM transform, in the order tried
RAM_FALLBACK == <<K_memory, K_mem, K_ram, K_Memory, K_memory_gb>>

\* the try block of safe_lambda
SafeLambdaBody(data, lambda_str) ==
  CASE lambda_str = LAMBDA_RAM ->
         IF HasKey(data, K_RAM) THEN FirstToken(GetItem(data, K_RAM))
         ELSE IF \E i \in DOMAIN RAM_FALLBACK : HasKey(data, RAM_FALLBACK[i])
              THEN LET first == CHOOSE i \in DOMAIN RAM_FALLBACK :
                                  /\ HasKey(data, RAM_FALLBACK[i])
                                  /\ \A j \in 1..(i - 1) : ~HasKey(data, RAM_FALLBACK[j])
                   IN FirstToken(GetItem(data, RAM_FALLBACK[first]))
              ELSE Raise("KeyError", "'No valid memory field found'")
    [] lambda_str = LAMBDA_MEM ->
         IF HasKey(data, K_mem)
         THEN DivKib(PyFloat(GetItem(data, K_mem)))
         ELSE IF HasKey(data, K_memory_gb)
              THEN PyFloat(GetItem(data, K_memory_gb))
              ELSE Ok(None)
    [] lambda_str = LAMBDA_MEMORY_GB ->
         IF HasKey(data, K_memory_gb)
         THEN PyFloat(GetItem(data, K_memory_gb))
         ELSE Raise("KeyError", "'No valid memory_gb field found'")
    [] OTHER -> Raise("ValueError", "Unsupported lambda expression: " \o Text(lambda_str))

\* safe_lambda: the four caught exception types are re-raised as ValueError,
\* any other (TypeError) propagates
Reraise(r) ==
  IF r.ok \/ r.exc \notin {"KeyError", "IndexError", "ValueError", "AttributeError"}
  THEN r
  ELSE Raise("ValueError", "Failed to parse memory: " \o r.msg)

safe_lambda(data, lambda_str) == Reraise(SafeLambdaBody(data, lambda_str))

\* -------------------------------------------------------------- get_field
\* MatchingKeys comparing the key and the name as written, without lower()
MatchingKeysExact(data, name) == {i \in DOMAIN data.o : data.o[i][1] = name}

\* the first key of the item, in iteration order, equal to name ignoring case
MatchingKeys(data, name) == {i \in DOMAIN data.o : Lower(data.o[i][1]) = Lower(name)}
FirstMatch(data, name) == CHOOSE i \in MatchingKeys(data, name) : \A j \in MatchingKeys(data, name) : i <= j

\* ListLookup with the loops exchanged: the first key of the item, in the
\* item's order, that matches any candidate
ListLookupByItemOrder(data, candidates) ==
  IF \E i \in DOMAIN data.o : \E c \in DOMAIN candidates :
       candidates[c].t = "str" /\ Lower(candidates[c].s) = Lower(data.o[i][1])
  THEN Ok(data.o[CHOOSE i \in DOMAIN data.o :
                   /\ \E c \in DOMAIN candidates :
                        candidates[c].t = "str" /\ Lower(candidates[c].s) = Lower(data.o[i][1])
                   /\ \A j \in 1..(i - 1) : \A c \in DOMAIN candidates :
                        candidates[c].t # "str" \/ Lower(candidates[c].s) # Lower(data.o[j][1])][2])
  ELSE Ok(None)

\* the list branch: candidates in list order, item keys in iteration order
RECURSIVE ListLookup(_, _)
ListLookup(data, candidates) ==
  IF candidates = <<>> THEN Ok(None)
  ELSE IF data.o = <<>> THEN ListLookup(data, Tail(candidates))
  ELSE IF Head(candidates).t # "str"
       THEN Raise("AttributeError", "'" \o TypeName(Head(candidates)) \o "' object has no attribute 'lower'")
       ELSE IF MatchingKeys(data, Head(candidates).s) # {}
            THEN Ok(data.o[FirstMatch(data, Head(candidates).s)][2])
            ELSE ListLookup(data, Tail(candidates))

\* the plain-string branch
StringLookup(data, name) ==
  IF MatchingKeys(data, name) # {}
  THEN Ok(data.o[FirstMatch(data, name)][2])
  ELSE IF HasKey(data, name) THEN Ok(GetItem(data, name)) ELSE Ok(None)

\* the except clause around the safe_lambda call
LambdaError(r) == IF r.ok THEN r ELSE Raise("ValueError", "Lambda execution error: " \o r.msg)

get_field(data, mapping) ==
  IF ~Truthy(mapping) THEN Ok(None)
  ELSE IF mapping.t = "list" THEN ListLookup(data, mapping.l)
  ELSE IF mapping.t = "str"
       THEN IF StartsWith(mapping.s, LAMBDA_PREFIX)
            THEN LambdaError(safe_lambda(data, mapping.s))
            ELSE StringLookup(data, mapping.s)
       ELSE Raise("ValueError", "Invalid mapping type")

\* ---------------------------------------------------------- normalize_cpu
\* ", ".join(str(cpu) for cpu in l)
RECURSIVE JoinStrs(_)
JoinStrs(l) ==
  IF l = <<>> THEN <<>>
  ELSE PyStr(l[1]) \o (IF Len(l) > 1 THEN <<",", " ">> ELSE <<>>) \o JoinStrs(Tail(l))

normalize_cpu(cpu_value) ==
  IF cpu_value.t = "list" THEN PyStrV(JoinStrs(cpu_value.l)) ELSE PyStrV(PyStr(cpu_value))

\* ------------------------------------------------------------------ state
VARIABLES
  file_exists,             \* os.path.exists(MAPPINGS_FILE)
  file_mtime,              \* os.path.getmtime(MAPPINGS_FILE)
  file_content,            \* what open/json.load find in the file
  MAPPINGS,                \* the cached mappings: source -> field -> descriptor
  MAPPINGS_LAST_MODIFIED,  \* the modification time of the cached mappings
  collection,              \* the records inserted into the store, in order
  pc,                      \* where the POST /machines request is
  source,                  \* its X-Source header ("" when absent)
  data,                    \* its payload as request.get_json() finds it
  current_mappings,        \* the mappings load_mappings() returned to it
  items,                   \* the items it iterates over
  idx,                     \* how many of them the loop has processed
  inserted,                \* its count of inserted records
  errors,                  \* its list of error messages
  response,                \* the response it returned
  gf_data,                 \* a get_field call: the item
  gf_mapping,              \*   the descriptor
  gf_returned,             \*   whether it has returned
  gf_result,               \*   the value it returned or the exception it raised
  reload                   \* the load_mappings calls of the other handlers: how many,
                           \*   the force argument of the last one, whether it ran
                           \*   between two items of a POST /machines loop, and
                           \*   whether it logged a failed reload

vars == <<file_exists, file_mtime, file_content, MAPPINGS, MAPPINGS_LAST_MODIFIED,
          collection, pc, source, data, current_mappings, items, idx, inserted,
          errors, response, gf_data, gf_mapping, gf_returned, gf_result, reload>>

fileVars == <<file_exists, file_mtime, file_content>>
requestVars == <<pc, source, data, current_mappings, items, idx, inserted, errors, response>>
serviceVars == <<fileVars, MAPPINGS, MAPPINGS_LAST_MODIFIED, collection, requestVars, reload>>
callVars == <<gf_data, gf_mapping, gf_returned, gf_result>>

\* ---------------------------------------------------------- load_mappings
\* the empty dict of mappings
EMPTY_MAPPINGS == [s \in {} |-> None]

\* maps.get(field)
MapsGet(maps, field) == IF field \in DOMAIN maps THEN maps[field] ELSE None

\* LoadMappings recording the file's modification time although the
\* reload failed
LoadMappingsAdvancingOnFailure(force, cur, last) ==
  IF ~file_exists
  THEN IF force \/ DOMAIN cur = {}
       THEN [mappings |-> EMPTY_MAPPINGS, last_modified |-> 0]
       ELSE [mappings |-> cur, last_modified |-> last]
  ELSE IF force \/ file_mtime > last
       THEN IF file_content.kind = "json"
            THEN [mappings |-> file_content.value, last_modified |-> file_mtime]
            ELSE [mappings |-> cur, last_modified |-> file_mtime]
       ELSE [mappings |-> cur, last_modified |-> last]

\* load_mappings on the globals (cur, last): the globals it leaves
LoadMappings(force, cur, last) ==
  IF ~file_exists
  THEN IF force \/ DOMAIN cur = {}
       THEN [mappings |-> EMPTY_MAPPINGS, last_modified |-> 0]
       ELSE [mappings |-> cur, last_modified |-> last]
  ELSE IF force \/ file_mtime > last
       THEN IF file_content.kind = "json"
            THEN [mappings |-> file_content.value, last_modified |-> file_mtime]
            ELSE [mappings |-> cur, last_modified |-> last]
       ELSE [mappings |-> cur, last_modified |-> last]

load_mappings(force) == LoadMappings(force, MAPPINGS, MAPPINGS_LAST_MODIFIED)

\* ---------------------------------------------------------- post_machines
\* str(e) of the exception a failed insert_one raises
DB_ERROR == "localhost:27017: [Errno 111] Connection refused"

\* the body of the loop for one item: the record inserted (or none) and the
\* error appended (or none).  db_ok: whether collection.insert_one succeeds
Accepted(record) == [inserted |-> TRUE, record |-> record, error |-> ""]
Skipped(message) == [inserted |-> FALSE, record |-> [os |-> None, cpu |-> None, memory_gb |-> None], error |-> message]

\* the try block for a dict item, given what get_field made of its three
\* descriptors.  The statements run in this order: cpu, memory, the check
\* for a missing memory, os, float(memory), the validation, the insert
\* ItemOutcome with the validation looking at os only
ItemOutcomeValidatingOsOnly(cpu_r, mem_r, os_r, db_ok) ==
  LET cpu_value == IF Truthy(cpu_r.val) THEN cpu_r.val ELSE PyStrV(<<>>)
      os_value == IF Truthy(os_r.val) THEN os_r.val ELSE PyStrV(<<>>)
      cpu == normalize_cpu(cpu_value)
      mem_f == PyFloat(mem_r.val)
  IN IF ~cpu_r.ok THEN Skipped(cpu_r.msg)
     ELSE IF ~mem_r.ok THEN Skipped(mem_r.msg)
     ELSE IF mem_r.val = None THEN Skipped("Missing memory_gb field")
     ELSE IF ~os_r.ok THEN Skipped(os_r.msg)
     ELSE IF ~mem_f.ok THEN Skipped(mem_f.msg)
     ELSE IF ~Truthy(os_value) THEN Skipped("Missing required fields (os or cpu)")
     ELSE IF ~db_ok THEN Skipped(DB_ERROR)
     ELSE Accepted([os |-> os_value, cpu |-> cpu, memory_gb |-> mem_f.val])

\* ItemOutcome with a missing memory kept as a null field of the record
ItemOutcomeSoftMemory(cpu_r, mem_r, os_r, db_ok) ==
  LET cpu_value == IF Truthy(cpu_r.val) THEN cpu_r.val ELSE PyStrV(<<>>)
      os_value == IF Truthy(os_r.val) THEN os_r.val ELSE PyStrV(<<>>)
      cpu == normalize_cpu(cpu_value)
      mem_f == IF mem_r.val = None THEN Ok(None) ELSE PyFloat(mem_r.val)
  IN IF ~cpu_r.ok THEN Skipped(cpu_r.msg)
     ELSE IF ~mem_r.ok THEN Skipped(mem_r.msg)
     ELSE IF ~os_r.ok THEN Skipped(os_r.msg)
     ELSE IF ~mem_f.ok THEN Skipped(mem_f.msg)
     ELSE IF ~Truthy(os_value) \/ ~Truthy(cpu) THEN Skipped("Missing required fields (os or cpu)")
     ELSE IF ~db_ok THEN Skipped(DB_ERROR)
     ELSE Accepted([os |-> os_value, cpu |-> cpu, memory_gb |-> mem_f.val])

ItemOutcome(cpu_r, mem_r, os_r, db_ok) ==
  LET cpu_value == IF Truthy(cpu_r.val) THEN cpu_r.val ELSE PyStrV(<<>>)
      os_value == IF Truthy(os_r.val) THEN os_r.val ELSE PyStrV(<<>>)
      cpu == normalize_cpu(cpu_value)
      mem_f == PyFloat(mem_r.val)
  IN IF ~cpu_r.ok THEN Skipped(cpu_r.msg)
     ELSE IF ~mem_r.ok THEN Skipped(mem_r.msg)
     ELSE IF mem_r.val = None THEN Skipped("Missing memory_gb field")
     ELSE IF ~os_r.ok THEN Skipped(os_r.msg)
     ELSE IF ~mem_f.ok THEN Skipped(mem_f.msg)
     ELSE IF ~Truthy(os_value) \/ ~Truthy(cpu) THEN Skipped("Missing required fields (os or cpu)")
     ELSE IF ~db_ok THEN Skipped(DB_ERROR)
     ELSE Accepted([os |-> os_value, cpu |-> cpu, memory_gb |-> mem_f.val])

ProcessItem(item, maps, db_ok) ==
  IF item.t # "dict" THEN Skipped("Item is not a valid JSON object")
  ELSE ItemOutcome(get_field(item, MapsGet(maps, "cpu")),
                   get_field(item, MapsGet(maps, "memory_gb")),
                   get_field(item, MapsGet(maps, "os")),
                   db_ok)

\* items = [data] if isinstance(data, dict) else data, as far as it can be
\* iterated: a list by its elements, a str by its characters
ItemsOf(d) ==
  CASE d.t = "dict" -> <<d>>
    [] d.t = "list" -> d.l
    [] d.t = "str" -> [i \in DOMAIN d.s |-> PyStrV(<<d.s[i]>>)]
    [] OTHER -> <<>>
Iterable(d) == d.t \in {"dict", "list", "str"}

NoResponse == [code |-> 0, body |-> [status |-> "none"]]
ErrorResponse(code, message) == [code |-> code, body |-> [status |-> "error", message |-> message]]

\* the request's locals before the handler runs and after it has returned
NoPayload == [parsed |-> FALSE, value |-> None]
NoRequest ==
  /\ pc = "idle"
  /\ source = ""
  /\ data = NoPayload
  /\ current_mappings = EMPTY_MAPPINGS
  /\ items = <<>>
  /\ idx = 0
  /\ inserted = 0
  /\ errors = <<>>
  /\ response = NoResponse

\* the checks before the loop, in the order made: the X-Source header,
\* request.get_json(), "if not data", and the iteration over items (a
\* payload that cannot be iterated raises TypeError, which nothing catches).
\* The 400 message for the header goes on to list the configured sources
Rejection(src, payload, mappings) ==
  IF src = "" \/ src \notin DOMAIN mappings
  THEN ErrorResponse(400, "Invalid or missing X-Source header")
  ELSE IF ~payload.parsed THEN ErrorResponse(400, "Invalid JSON payload")
  ELSE IF ~Truthy(payload.value) THEN ErrorResponse(400, "No data provided")
  ELSE IF ~Iterable(payload.value) THEN ErrorResponse(500, "Internal Server Error")
  ELSE NoResponse

\* the handler up to the loop, given what load_mappings() leaves and what
\* the checks found
Begin(src, payload, loaded, rejection) ==
  /\ MAPPINGS' = loaded.mappings
  /\ MAPPINGS_LAST_MODIFIED' = loaded.last_modified
  /\ current_mappings' = loaded.mappings
  /\ source' = src
  /\ data' = payload
  /\ inserted' = 0
  /\ errors' = <<>>
  /\ idx' = 0
  /\ response' = rejection
  /\ items' = IF rejection = NoResponse THEN ItemsOf(payload.value) ELSE <<>>
  /\ pc' = IF rejection = NoResponse THEN "loop" ELSE "done"

\* POST /machines up to the loop: load_mappings(), the checks, items /
\* inserted / errors
PostStart(src, payload) ==
  /\ pc = "idle"
  /\ Len(collection) < MaxStore
  /\ Begin(src, payload, load_mappings(FALSE), Rejection(src, payload, load_mappings(FALSE).mappings))
  /\ UNCHANGED <<fileVars, collection, callVars, reload>>

\* Record with the except clause logging the error without appending it
RecordSwallowingExceptions(r) ==
  /\ collection' = IF r.inserted THEN Append(collection, r.record) ELSE collection
  /\ inserted' = IF r.inserted THEN inserted + 1 ELSE inserted
  /\ errors' = IF r.inserted \/ r.error = DB_ERROR THEN errors ELSE Append(errors, r.error)

\* what the loop does with the outcome of one item
Record(r) ==
  /\ collection' = IF r.inserted THEN Append(collection, r.record) ELSE collection
  /\ inserted' = IF r.inserted THEN inserted + 1 ELSE inserted
  /\ errors' = IF r.inserted THEN errors ELSE Append(errors, r.error)

\* PostItem looking the source up in the global MAPPINGS at every item
\* instead of in the mappings the request got at its start
PostItemReadingGlobals(db_ok) ==
  /\ pc = "loop"
  /\ idx < Len(items)
  /\ IF source \in DOMAIN MAPPINGS
     THEN Record(ProcessItem(items[idx + 1], MAPPINGS[source], db_ok))
     ELSE Record(Skipped("'" \o source \o "'"))
  /\ idx' = idx + 1
  /\ UNCHANGED <<fileVars, MAPPINGS, MAPPINGS_LAST_MODIFIED, pc, source, data,
                 current_mappings, items, response, callVars, reload>>

\* one iteration of the loop over items
PostItem(db_ok) ==
  /\ pc = "loop"
  /\ idx < Len(items)
  /\ Record(ProcessItem(items[idx + 1], current_mappings[source], db_ok))
  /\ idx' = idx + 1
  /\ UNCHANGED <<fileVars, MAPPINGS, MAPPINGS_LAST_MODIFIED, pc, source, data,
                 current_mappings, items, response, callVars, reload>>

\* the return after the loop
PostReturn ==
  /\ pc = "loop"
  /\ idx = Len(items)
  /\ response' = [code |-> 200,
                  body |-> [status |-> "success", inserted |-> inserted, errors |-> errors,
                            message |-> "Inserted " \o ToString(inserted) \o " records"]]
  /\ pc' = "done"
  /\ UNCHANGED <<fileVars, MAPPINGS, MAPPINGS_LAST_MODIFIED, collection, source, data,
                 current_mappings, items, idx, inserted, errors, callVars, reload>>

\* a call of get_field on its own
Resolve ==
  /\ ~gf_returned
  /\ gf_result' = get_field(gf_data, gf_mapping)
  /\ gf_returned' = TRUE
  /\ UNCHANGED <<serviceVars, gf_data, gf_mapping>>

\* the response is sent and the request's locals are gone
PostDone ==
  /\ pc = "done"
  /\ pc' = "idle"
  /\ source' = ""
  /\ data' = NoPayload
  /\ current_mappings' = EMPTY_MAPPINGS
  /\ items' = <<>>
  /\ idx' = 0
  /\ inserted' = 0
  /\ errors' = <<>>
  /\ response' = NoResponse
  /\ UNCHANGED <<fileVars, MAPPINGS, MAPPINGS_LAST_MODIFIED, collection, callVars, reload>>

\* load_mappings attempts a reload and the attempt fails (it logs "Invalid
\* JSON in ..." or "Error loading mappings: ...")
ReloadFails(force, last) ==
  /\ file_exists
  /\ force \/ file_mtime > last
  /\ file_content.kind # "json"

\* no load_mappings call of another handler yet
NoReload == [n |-> 0, force |-> FALSE, mid_batch |-> FALSE, failed |-> FALSE]

\* load_mappings called by another handler while POST /machines is idle or
\* between two items of its loop: POST /mappings/reload calls it with
\* force=True, GET /machines, /stats, /mappings and /mappings/sources call
\* it without.  It rebinds the globals and touches no request's locals
Reload(force) ==
  /\ reload.n < MaxReloads
  /\ MAPPINGS' = load_mappings(force).mappings
  /\ MAPPINGS_LAST_MODIFIED' = load_mappings(force).last_modified
  /\ reload' = [n |-> reload.n + 1, force |-> force,
                mid_batch |-> pc = "loop" /\ 0 < idx /\ idx < Len(items),
                failed |-> ReloadFails(force, MAPPINGS_LAST_MODIFIED)]
  /\ UNCHANGED <<fileVars, collection, requestVars, callVars>>

\* the mappings file is written: new content, and a modification time that
\* is newer, equal or older (a restored or copied file keeps its own)
FileWrite(content, mtime) ==
  /\ file_exists' = TRUE
  /\ file_content' = content
  /\ file_mtime' = mtime
  /\ UNCHANGED <<MAPPINGS, MAPPINGS_LAST_MODIFIED, collection, requestVars, callVars, reload>>

\* the mappings file is deleted; nothing reads the content or the
\* modification time of a missing file, they are left as at a start
\* without file
FileDelete ==
  /\ file_exists
  /\ file_exists' = FALSE
  /\ file_mtime' = 1
  /\ file_content' = [kind |-> "invalid", value |-> EMPTY_MAPPINGS]
  /\ UNCHANGED <<MAPPINGS, MAPPINGS_LAST_MODIFIED, collection, requestVars, callVars, reload>>

\* ----------------------------------------------------------------- inputs
\* A mappings file in the shape the sample payloads and tests use: a direct
\* name per field (team_a), the RAM transform (team_b), a candidate list
\* and the kib transform (team_c), no memory descriptor (team_d), a
\* descriptor that is neither a string nor a list (team_e), the memory_gb
\* transform (team_f)
CONFIG_MAIN ==
  [s \in {"team_a", "team_b", "team_c", "team_d", "team_e", "team_f"} |->
     CASE s = "team_a" -> [os |-> PyStrV(K_os), cpu |-> PyStrV(K_cpu_model), memory_gb |-> PyStrV(K_memory_gb)]
       [] s = "team_b" -> [os |-> PyStrV(K_OperatingSystem), cpu |-> PyStrV(K_CPU), memory_gb |-> PyStrV(LAMBDA_RAM)]
       [] s = "team_c" -> [os |-> PyList(<<PyStrV(K_osName), PyStrV(K_OSName)>>), cpu |-> PyStrV(K_processor), memory_gb |-> PyStrV(LAMBDA_MEM)]
       [] s = "team_d" -> [os |-> PyStrV(K_os), cpu |-> PyStrV(K_cpu_model)]
       [] s = "team_e" -> [os |-> PyStrV(K_os), cpu |-> PyInt(7), memory_gb |-> PyStrV(K_memory_gb)]
       [] s = "team_f" -> [os |-> PyStrV(K_os), cpu |-> PyStrV(K_cpu_model), memory_gb |-> PyStrV(LAMBDA_MEMORY_GB)]]

\* what the mappings file can hold: the configuration, or text json.load rejects
FILE_CONTENTS == {[kind |-> "json", value |-> CONFIG_MAIN], [kind |-> "invalid", value |-> EMPTY_MAPPINGS]}

\* the X-Source headers sent: absent, unknown, and the configured sources
SOURCES == {"", "invalid_team"} \cup DOMAIN CONFIG_MAIN

\* the key-value pairs an item is put together from: its os pairs, then its
\* cpu pairs, then its memory pairs
OS_PAIRS ==
  { <<>>,
    <<<<K_os, PyStrV(S_Ubuntu)>>>>,
    <<<<K_os, PyStrV(<<>>)>>>>,
    <<<<K_os, PyInt(5)>>>>,
    <<<<K_OperatingSystem, PyStrV(S_Ubuntu)>>>>,
    <<<<K_osName, PyStrV(S_Ubuntu)>>>>,
    <<<<K_OSName, PyInt(5)>>, <<K_osName, PyStrV(S_Ubuntu)>>>> }
CPU_PAIRS ==
  { <<>>,
    <<<<K_cpu_model, PyStrV(S_Xeon)>>>>,
    <<<<K_cpu_model, PyList(<<PyStrV(S_Xeon), PyStrV(S_Xeon)>>)>>>>,
    <<<<K_CPU, PyStrV(S_Xeon)>>>>,
    <<<<K_processor, PyList(<<PyStrV(S_Xeon), PyStrV(S_Xeon)>>)>>>> }
MEMORY_PAIRS ==
  { <<>>,
    <<<<K_memory_gb, PyInt(64)>>>>,
    <<<<K_memory_gb, PyStrV(S_64)>>>>,
    <<<<K_memory_gb, PyInt(-8)>>>>,
    <<<<K_memory_gb, PyStrV(S_bad)>>>>,
    <<<<K_memory_gb, None>>>>,
    <<<<K_memory_gb, PyList(<<PyInt(64)>>)>>>>,
    <<<<K_mem, PyInt(65536)>>>>,
    <<<<K_RAM, PyStrV(S_64GB)>>>> }

\* the single-object payloads
OBJECTS == {PyDict(o \o c \o m) : o \in OS_PAIRS, c \in CPU_PAIRS, m \in MEMORY_PAIRS}

\* the elements of array payloads: a complete team_a item, a string, an item
\* without memory, one with unparsable memory, one without os and cpu
ELEMENTS ==
  { PyDict(<<<<K_os, PyStrV(S_Ubuntu)>>, <<K_cpu_model, PyStrV(S_Xeon)>>, <<K_memory_gb, PyInt(64)>>>>),
    PyStrV(S_invalid_item),
    PyDict(<<<<K_os, PyStrV(S_Ubuntu)>>, <<K_cpu_model, PyStrV(S_Xeon)>>>>),
    PyDict(<<<<K_os, PyStrV(S_Ubuntu)>>, <<K_cpu_model, PyStrV(S_Xeon)>>, <<K_memory_gb, PyStrV(S_bad)>>>>),
    PyDict(<<<<K_memory_gb, PyInt(64)>>>>) }

RECURSIVE SeqsUpTo(_, _)
SeqsUpTo(S, n) == IF n = 0 THEN {<<>>} ELSE SeqsUpTo(S, n - 1) \cup {Append(q, e) : q \in SeqsUpTo(S, n - 1), e \in S}
ARRAYS == {PyList(q) : q \in SeqsUpTo(ELEMENTS, MaxItems)}

\* other JSON values a payload can be
SCALARS == {None, PyInt(0), PyInt(5), PyStrV(<<>>), PyStrV(<<"o", "s">>), PyDict(<<>>)}

\* what request.get_json() finds: a parsed value, or a body that is no JSON
PAYLOADS == {[parsed |-> TRUE, value |-> v] : v \in OBJECTS \cup ARRAYS \cup SCALARS}
              \cup {NoPayload}

\* the items get_field is applied to on its own: every dict of at most two
\* of these pairs with different keys.  Name-like keys hold a name or a
\* number, memory-like keys a number, a numeric string, a quantity with a
\* unit, a string that is no number, or null
NAME_KEYS == {K_os, K_Os, K_oS, K_OS, K_osName, K_OSName, K_OperatingSystem}
MEMORY_KEYS == {K_RAM, K_memory, K_mem, K_ram, K_Memory, K_memory_gb}
RESOLVE_PAIRS ==
  {<<k, v>> : k \in NAME_KEYS, v \in {PyStrV(S_Ubuntu), PyInt(5)}}
    \cup {<<k, v>> : k \in MEMORY_KEYS,
                     v \in {PyInt(65536), PyStrV(S_64), PyStrV(S_64GB), PyStrV(S_bad), None}}
RESOLVE_DATA ==
  {PyDict(<<>>)}
    \cup {PyDict(<<p>>) : p \in RESOLVE_PAIRS}
    \cup {PyDict(<<pq[1], pq[2]>>) : pq \in {x \in RESOLVE_PAIRS \X RESOLVE_PAIRS : x[1][1] # x[2][1]}}

\* the descriptors: absent and empty ones, plain names in several casings,
\* candidate lists, the transform strings, and shapes get_field rejects
CANDIDATES == {PyStrV(K_osName), PyStrV(K_OSName), PyStrV(K_os)}
DESCRIPTORS ==
  {None, PyStrV(<<>>), PyList(<<>>), PyInt(7), PyList(<<PyInt(7)>>)}
    \cup {PyStrV(k) : k \in {K_os, K_Os, K_oS, K_OS, K_memory_gb, K_OperatingSystem,
                              K_operating_system, K_operatingsystem, K_OPERATINGSYSTEM}}
    \cup {PyList(<<c>>) : c \in CANDIDATES}
    \cup {PyList(<<c, d>>) : c \in CANDIDATES, d \in CANDIDATES}
    \cup {PyStrV(LAMBDA_RAM), PyStrV(LAMBDA_MEM), PyStrV(LAMBDA_MEMORY_GB), PyStrV(LAMBDA_OTHER)}

\* a second version of the mappings file: team_a renamed to the names and
\* the transform team_b uses
CONFIG_ALT ==
  [s \in {"team_a"} |->
     [os |-> PyStrV(K_OperatingSystem), cpu |-> PyStrV(K_CPU), memory_gb |-> PyStrV(LAMBDA_RAM)]]

\* what the file can be rewritten to: either version, text json.load
\* rejects, or a file open() cannot read
CONFIG_FILES ==
  FILE_CONTENTS \cup {[kind |-> "json", value |-> CONFIG_ALT], [kind |-> "unreadable", value |-> EMPTY_MAPPINGS]}

\* the modification times a written file can carry
MTIMES == 1..MaxMtime

\* the request sent while the file changes: two team_a items, under their
\* first names, in an array
ITEM_A == PyDict(<<<<K_os, PyStrV(S_Ubuntu)>>, <<K_cpu_model, PyStrV(S_Xeon)>>, <<K_memory_gb, PyInt(64)>>>>)
CONFIG_PAYLOADS == {[parsed |-> TRUE, value |-> PyList(<<ITEM_A, ITEM_A>>)]}

\* ---------------------------------------------------------- specification
\* no get_field call on its own
NoCall ==
  /\ gf_data = PyDict(<<>>)
  /\ gf_mapping = None
  /\ gf_returned = FALSE
  /\ gf_result = Ok(None)

\* The service once the module is imported: the file as it is found, the
\* mappings load_mappings(force=True) leaves, an empty store, no request
ServiceInit ==
  /\ file_exists \in BOOLEAN
  /\ file_mtime = 1
  /\ file_content \in FILE_CONTENTS
  /\ MAPPINGS = LoadMappings(TRUE, EMPTY_MAPPINGS, 0).mappings
  /\ MAPPINGS_LAST_MODIFIED = LoadMappings(TRUE, EMPTY_MAPPINGS, 0).last_modified
  /\ collection = <<>>
  /\ NoRequest
  /\ reload = NoReload

Init == ServiceInit /\ NoCall

Next ==
  \/ \E src \in SOURCES, payload \in PAYLOADS : PostStart(src, payload)
  \/ \E db_ok \in BOOLEAN : PostItem(db_ok)
  \/ PostReturn
  \/ PostDone

\* the service under POST /machines requests
Spec == Init /\ [][Next]_vars

\* the service while the mappings file changes and other handlers reload it
NextConfig ==
  \/ \E payload \in CONFIG_PAYLOADS : PostStart("team_a", payload)
  \/ \E db_ok \in BOOLEAN : PostItem(db_ok)
  \/ PostReturn
  \/ PostDone
  \/ \E force \in BOOLEAN : Reload(force)
  \/ \E content \in CONFIG_FILES, mtime \in MTIMES : FileWrite(content, mtime)
  \/ FileDelete

SpecConfig == Init /\ [][NextConfig]_vars

\* get_field applied to each item and descriptor of the input sets
InitResolve ==
  /\ ServiceInit
  /\ ~file_exists
  /\ file_content.kind = "invalid"
  /\ gf_data \in RESOLVE_DATA
  /\ gf_mapping \in DESCRIPTORS
  /\ gf_returned = FALSE
  /\ gf_result = Ok(None)

NextResolve == Resolve

SpecResolve == InitResolve /\ [][NextResolve]_vars

\* ------------------------------------------------------------- properties
\* the request's source is configured and its payload passed the checks
InLoop == pc = "loop"
\* the loop processes one item in this step
ItemStep == pc = "loop" /\ idx' = idx + 1
\* the item the loop processes next, and the descriptors in force
ThisItem == items[idx + 1]
ThisMaps == current_mappings[source]
\* the step skips the item: nothing is persisted, processing goes on
SkipsWith(message) ==
  /\ collection' = collection
  /\ inserted' = inserted
  /\ errors' = Append(errors, message)
  /\ pc' = "loop"

\* C1: for every POST /machines batch that passes the source and payload
\* checks, every item is accounted for exactly once: each iteration either
\* persists one record and counts it, or appends one error entry, never
\* both and never neither, so that inserted plus the number of error
\* entries is the number of items processed, and in the response the
\* number of input items.
C1_OneOutcome ==
  ItemStep =>
    \/ /\ Len(collection') = Len(collection) + 1
       /\ inserted' = inserted + 1
       /\ errors' = errors
    \/ /\ collection' = collection
       /\ inserted' = inserted
       /\ Len(errors') = Len(errors) + 1
C1_EveryItemAccountedOnce ==
  /\ [](InLoop => inserted + Len(errors) = idx)
  /\ [](response.code = 200 =>
         response.body.inserted + Len(response.body.errors) = Len(items))
  /\ [][C1_OneOutcome]_vars
\* a two-item batch answered with one record inserted and one error
C1_Witness ==
  /\ response.code = 200
  /\ Len(items) = 2
  /\ response.body.inserted = 1
  /\ Len(response.body.errors) = 1
  /\ Len(collection) = 1

\* C2: the only batch-level failures of POST /machines are an absent or
\* unrecognized X-Source and a payload that is neither a JSON object nor an
\* array; both are rejected with an error response before any item is
\* normalized and persist nothing; a payload that is an object or an array
\* is never rejected at batch level.
BadSource == source = "" \/ source \notin DOMAIN current_mappings
ObjectOrArray == data.parsed /\ data.value.t \in {"dict", "list"}
C2_OnlyBatchLevelFailures ==
  pc = "done" =>
    /\ response.code # 200 <=> (BadSource \/ ~ObjectOrArray)
    /\ response.code # 200 => (idx = 0 /\ inserted = 0 /\ errors = <<>>)

\* C3: for every index i whose item is not a key-value object, exactly one
\* error entry is recorded for the item and it reads "Item <i> is not a
\* valid JSON object" with the item's 0-based index.
C3_IndexedObjectError ==
  \A i \in 1..idx :
    (data.value.t = "list" /\ items[i].t # "dict") =>
      Cardinality({j \in DOMAIN errors :
                     errors[j] = "Item " \o ToString(i - 1) \o " is not a valid JSON object"}) = 1

\* C4: every record POST /machines persists is canonical: os a non-empty
\* string, cpu a non-empty string, memory_gb absent or a non-negative number.
CanonicalRecord(record) ==
  /\ record.os.t = "str" /\ Len(record.os.s) > 0
  /\ record.cpu.t = "str" /\ Len(record.cpu.s) > 0
  /\ \/ record.memory_gb = None
     \/ record.memory_gb.t = "float" /\ record.memory_gb.n >= 0
C4_StoreHoldsCanonicalRecords == \A i \in DOMAIN collection : CanonicalRecord(collection[i])

\* what the descriptors of a source resolve to in an item
CpuOf(item, maps) == get_field(item, MapsGet(maps, "cpu"))
MemoryOf(item, maps) == get_field(item, MapsGet(maps, "memory_gb"))
OsOf(item, maps) == get_field(item, MapsGet(maps, "os"))
\* os or cpu is empty after extraction
OsOrCpuEmpty(cpu_r, os_r) ==
  /\ cpu_r.ok
  /\ os_r.ok
  /\ \/ ~Truthy(os_r.val)
     \/ ~Truthy(normalize_cpu(IF Truthy(cpu_r.val) THEN cpu_r.val ELSE PyStrV(<<>>)))
\* memory resolves to a non-null value that float() accepts
MemoryUsable(mem_r) == mem_r.ok /\ mem_r.val # None /\ PyFloat(mem_r.val).ok
\* the step skips the item with one error entry other than the given one
SkipsOtherwise(message) ==
  /\ collection' = collection
  /\ inserted' = inserted
  /\ Len(errors') = Len(errors) + 1
  /\ errors'[Len(errors')] # message
  /\ pc' = "loop"
\* the loop has just skipped an object item with this error entry
JustSkipped(message) ==
  /\ idx >= 1
  /\ items[idx].t = "dict"
  /\ errors # <<>>
  /\ errors[Len(errors)] = message
  /\ collection = <<>>

\* C5 (as stated): every object item whose os or cpu is empty after
\* extraction is skipped with the error entry "Missing required fields (os
\* or cpu)" and nothing is persisted for it, whatever its memory field
\* resolves to.
C5_Stated ==
  (ItemStep /\ ThisItem.t = "dict"
     /\ OsOrCpuEmpty(CpuOf(ThisItem, ThisMaps), OsOf(ThisItem, ThisMaps))) =>
    SkipsWith("Missing required fields (os or cpu)")
C5_MissingRequiredWhateverMemory == [][C5_Stated]_vars
\* C5 (amended): every object item whose os or cpu is empty after extraction
\* is skipped and nothing is persisted for it; its error entry is "Missing
\* required fields (os or cpu)" when its memory field resolves to a non-null
\* value that float() accepts, and the memory error otherwise.
C5_Amended ==
  (ItemStep /\ ThisItem.t = "dict"
     /\ OsOrCpuEmpty(CpuOf(ThisItem, ThisMaps), OsOf(ThisItem, ThisMaps))) =>
    IF MemoryUsable(MemoryOf(ThisItem, ThisMaps))
    THEN SkipsWith("Missing required fields (os or cpu)")
    ELSE SkipsOtherwise("Missing required fields (os or cpu)")
C5_MissingRequiredAfterMemory == [][C5_Amended]_vars
\* an item with os, without cpu, with usable memory was skipped for its
\* missing required field
C5_Witness ==
  /\ JustSkipped("Missing required fields (os or cpu)")
  /\ Truthy(OsOf(items[idx], current_mappings[source]).val)
  /\ OsOrCpuEmpty(CpuOf(items[idx], current_mappings[source]), OsOf(items[idx], current_mappings[source]))
  /\ MemoryUsable(MemoryOf(items[idx], current_mappings[source]))

\* C6 (as stated): every object item whose memory_gb descriptor resolves to
\* null is skipped with the error entry "Missing memory_gb field"; nothing
\* is persisted for it and the loop goes on.
C6_Stated ==
  (ItemStep /\ ThisItem.t = "dict"
     /\ MemoryOf(ThisItem, ThisMaps) = Ok(None)) =>
    SkipsWith("Missing memory_gb field")
C6_MissingMemorySkips == [][C6_Stated]_vars
\* C6 (amended): every object item whose memory_gb descriptor resolves to
\* null is skipped, nothing is persisted for it and the loop goes on; its
\* error entry is "Missing memory_gb field" provided its cpu descriptor
\* resolves without error, and the cpu descriptor's error otherwise.
C6_Amended ==
  (ItemStep /\ ThisItem.t = "dict"
     /\ MemoryOf(ThisItem, ThisMaps) = Ok(None)) =>
    IF CpuOf(ThisItem, ThisMaps).ok
    THEN SkipsWith("Missing memory_gb field")
    ELSE SkipsWith(CpuOf(ThisItem, ThisMaps).msg)
C6_MissingMemorySkipsAfterCpu == [][C6_Amended]_vars
\* an item with os and cpu whose memory resolves to null was skipped
C6_Witness ==
  /\ JustSkipped("Missing memory_gb field")
  /\ MemoryOf(items[idx], current_mappings[source]) = Ok(None)
  /\ CpuOf(items[idx], current_mappings[source]).ok
  /\ ~OsOrCpuEmpty(CpuOf(items[idx], current_mappings[source]), OsOf(items[idx], current_mappings[source]))

\* C7: every object item whose memory_gb resolves to a non-null value that
\* cannot be coerced to a number fails with the error entry "memory_gb must
\* be a number"; nothing is persisted for it and the loop goes on.
C7_Stated ==
  (ItemStep /\ ThisItem.t = "dict"
     /\ CpuOf(ThisItem, ThisMaps).ok
     /\ OsOf(ThisItem, ThisMaps).ok
     /\ MemoryOf(ThisItem, ThisMaps).ok
     /\ MemoryOf(ThisItem, ThisMaps).val # None
     /\ ~PyFloat(MemoryOf(ThisItem, ThisMaps).val).ok) =>
    SkipsWith("memory_gb must be a number")
C7_NotANumberMessage == [][C7_Stated]_vars

\* a plain-string descriptor: a non-empty string that is no transform
PlainName(mapping) == mapping.t = "str" /\ mapping.s # <<>> /\ ~StartsWith(mapping.s, LAMBDA_PREFIX)
\* the casings of "os" and of "operatingsystem" among the keys and descriptors
OS_CASINGS == {K_os, K_Os, K_oS, K_OS}
OPERATINGSYSTEM_CASINGS == {K_OperatingSystem, K_operatingsystem, K_OPERATINGSYSTEM}
\* the value of the first key of the item, in the item's order, that is in names
FirstOf(item, names) ==
  item.o[CHOOSE i \in DOMAIN item.o :
           /\ item.o[i][1] \in names
           /\ \A j \in 1..(i - 1) : item.o[j][1] \notin names][2]
HasAny(item, names) == \E i \in DOMAIN item.o : item.o[i][1] \in names
\* the descriptor, in any of the given casings, finds the key in any of them
ResolvesAmong(descriptors, keys) ==
  (gf_returned /\ PlainName(gf_mapping) /\ gf_mapping.s \in descriptors /\ HasAny(gf_data, keys)) =>
    gf_result = Ok(FirstOf(gf_data, keys))

\* C8 (as stated): plain-string lookup ignores case, so that a key
\* OperatingSystem resolves under the descriptor "operating_system" and
\* under any case variant of it, and a key matches a descriptor in every
\* combination of casings of either.
C8_UnderscoreVariantResolves ==
  /\ ResolvesAmong(OS_CASINGS, OS_CASINGS)
  /\ ResolvesAmong(OPERATINGSYSTEM_CASINGS \cup {K_operating_system}, OPERATINGSYSTEM_CASINGS)
\* C8 (amended): plain-string lookup ignores case and nothing else: a key
\* matches a descriptor in every combination of casings of either, a key
\* OperatingSystem resolves under "operatingsystem" in any casing, and under
\* "operating_system" it does not resolve (the result is null).
C8_CaseOnlyLookup ==
  /\ ResolvesAmong(OS_CASINGS, OS_CASINGS)
  /\ ResolvesAmong(OPERATINGSYSTEM_CASINGS, OPERATINGSYSTEM_CASINGS)
  /\ (gf_returned /\ gf_mapping = PyStrV(K_operating_system)) => gf_result = Ok(None)
\* the key OperatingSystem found under the descriptor OPERATINGSYSTEM
C8_Witness ==
  /\ gf_returned
  /\ gf_mapping = PyStrV(K_OPERATINGSYSTEM)
  /\ Keys(gf_data) = <<K_OperatingSystem>>
  /\ gf_result = Ok(PyStrV(S_Ubuntu))

\* a list of candidate names
CandidateList(mapping) == mapping.t = "list" /\ \A c \in DOMAIN mapping.l : mapping.l[c].t = "str"
\* the keys of the item that the candidate matches ignoring case
KeysMatching(item, candidate) == {i \in DOMAIN item.o : Lower(item.o[i][1]) = Lower(candidate.s)}
\* the candidates that match some key of the item
Present(item, candidates) == {c \in DOMAIN candidates : KeysMatching(item, candidates[c]) # {}}
FirstPresent(item, candidates) == CHOOSE c \in Present(item, candidates) : \A d \in Present(item, candidates) : c <= d
\* the item with its keys in the opposite order
Reversed(item) == PyDict([i \in DOMAIN item.o |-> item.o[Len(item.o) + 1 - i]])
\* no two keys of the item are equal ignoring case
KeysDifferBeyondCase(item) ==
  \A i, j \in DOMAIN item.o : i # j => Lower(item.o[i][1]) # Lower(item.o[j][1])
\* the result is a value the first present candidate matches
FirstCandidateWins ==
  IF Present(gf_data, gf_mapping.l) = {}
  THEN gf_result = Ok(None)
  ELSE \E i \in KeysMatching(gf_data, gf_mapping.l[FirstPresent(gf_data, gf_mapping.l)]) :
         gf_result = Ok(gf_data.o[i][2])

\* C9 (as stated): for a list of candidates get_field returns the value of
\* the first candidate, in list order, that matches some key ignoring case,
\* whatever the order of the item's keys; when no candidate matches it
\* returns null and raises nothing.
C9_CandidateOrderOnly ==
  (gf_returned /\ CandidateList(gf_mapping)) =>
    /\ FirstCandidateWins
    /\ Cardinality({gf_mapping.l[c] : c \in Present(gf_data, gf_mapping.l)}) >= 2 =>
         gf_result = get_field(Reversed(gf_data), gf_mapping)
\* C9 (amended): for a list of candidates get_field returns the value of
\* the first candidate, in list order, that matches some key ignoring case;
\* the result does not depend on the order of the item's keys provided no
\* two keys of the item are equal ignoring case, and otherwise it is the
\* value of the first such key in the item's order; when no candidate
\* matches it returns null and raises nothing.
C9_CandidateOrderThenKeyOrder ==
  (gf_returned /\ CandidateList(gf_mapping)) =>
    /\ FirstCandidateWins
    /\ KeysDifferBeyondCase(gf_data) => gf_result = get_field(Reversed(gf_data), gf_mapping)
    /\ Present(gf_data, gf_mapping.l) # {} =>
         \A i \in KeysMatching(gf_data, gf_mapping.l[FirstPresent(gf_data, gf_mapping.l)]) :
           (\A j \in KeysMatching(gf_data, gf_mapping.l[FirstPresent(gf_data, gf_mapping.l)]) : i <= j)
             => gf_result = Ok(gf_data.o[i][2])
\* two candidates both present, the item's keys in the opposite order: the
\* first candidate's value is returned
C9_Witness ==
  /\ gf_returned
  /\ gf_mapping = PyList(<<PyStrV(K_os), PyStrV(K_osName)>>)
  /\ gf_data = PyDict(<<<<K_osName, PyInt(5)>>, <<K_os, PyStrV(S_Ubuntu)>>>>)
  /\ gf_result = Ok(PyStrV(S_Ubuntu))

\* C10: the kib-to-gib transform returns mem / 1024 when mem is present and
\* numeric, memory_gb as a number when mem is absent and memory_gb is
\* present and numeric, and fails with a resolution error when the chosen
\* value is not numeric or when neither field exists.
C10_KibToGibFailsWithoutFields ==
  (gf_returned /\ gf_mapping = PyStrV(LAMBDA_MEM)) =>
    IF HasKey(gf_data, K_mem)
    THEN IF PyFloat(GetItem(gf_data, K_mem)).ok
         THEN /\ gf_result.ok
              /\ gf_result.val.t = "float"
              /\ gf_result.val.n * KIB_PER_GIB = PyFloat(GetItem(gf_data, K_mem)).val.n
         ELSE ~gf_result.ok
    ELSE IF HasKey(gf_data, K_memory_gb)
         THEN IF PyFloat(GetItem(gf_data, K_memory_gb)).ok
              THEN gf_result = PyFloat(GetItem(gf_data, K_memory_gb))
              ELSE ~gf_result.ok
         ELSE ~gf_result.ok

\* the six field names of the ram transform in their priority order
RAM_PRIORITY == <<K_RAM, K_memory, K_mem, K_ram, K_Memory, K_memory_gb>>
\* the fields of the item that are among them, by priority
RamPresent(item) == {p \in DOMAIN RAM_PRIORITY : HasKey(item, RAM_PRIORITY[p])}
\* the value of the field with the highest priority
RamChosen(item) ==
  GetItem(item, RAM_PRIORITY[CHOOSE p \in RamPresent(item) : \A q \in RamPresent(item) : p <= q])
\* what the transform makes of each value the items hold: the number
\* itself, the first token of "64" and of "64 GB", an error for "bad" and null
RamExpected(value, result) ==
  CASE value = PyInt(65536) -> result = Ok(PyFlt(65536 * KIB_PER_GIB))
    [] value = PyStrV(S_64) -> result = Ok(PyFlt(64 * KIB_PER_GIB))
    [] value = PyStrV(S_64GB) -> result = Ok(PyFlt(64 * KIB_PER_GIB))
    [] OTHER -> ~result.ok

\* C11: the ram-string-first-token transform picks the first field present
\* in the order RAM, memory, mem, ram, Memory, memory_gb; a number is
\* returned as that number, a string gives the number its first
\* whitespace-separated token reads as; it fails with an error when none of
\* the six fields exists or when the first token is not a number, and never
\* goes on to a field of lower priority after a failure.
C11_RamFirstToken ==
  (gf_returned /\ gf_mapping = PyStrV(LAMBDA_RAM)) =>
    IF RamPresent(gf_data) = {}
    THEN ~gf_result.ok
    ELSE RamExpected(RamChosen(gf_data), gf_result)
\* RAM "64 GB" wins over a memory_gb field that comes first in the item;
\* RAM "bad" fails although a usable memory field exists
C11_Witness ==
  /\ gf_returned
  /\ gf_mapping = PyStrV(LAMBDA_RAM)
  /\ gf_data = PyDict(<<<<K_memory_gb, PyInt(65536)>>, <<K_RAM, PyStrV(S_64GB)>>>>)
  /\ gf_result = Ok(PyFlt(64 * KIB_PER_GIB))
C11_WitnessNoFallThrough ==
  /\ gf_returned
  /\ gf_mapping = PyStrV(LAMBDA_RAM)
  /\ gf_data = PyDict(<<<<K_RAM, PyStrV(S_bad)>>, <<K_memory, PyInt(65536)>>>>)
  /\ ~gf_result.ok

\* a POST /machines request begins in this step
RequestBegins == pc = "idle" /\ pc' # "idle"
\* the file is absent, or holds a configuration json.load accepts
FileSettled == ~file_exists \/ file_content.kind = "json"
\* what the file holds now: its configuration, or none when it is deleted
LatestSnapshot == IF file_exists THEN file_content.value ELSE EMPTY_MAPPINGS

\* C12: after any sequence of changes to the mappings file between requests
\* (rewritten with new content, replaced by a file whose modification time
\* is equal or older, or deleted), the next POST /machines request works
\* with the configuration the file holds now, never with mappings cached
\* from an earlier version.
C12_Stated == (RequestBegins /\ FileSettled) => current_mappings' = LatestSnapshot
C12_RequestUsesLatestSnapshot == [][C12_Stated]_vars

\* C13: within one POST /machines batch every item is resolved against the
\* mappings the request obtained at its start: the request's mappings are
\* what load_mappings() returned to it, no step taken while the loop runs
\* changes them (a reload by another handler between two items rebinds the
\* globals only), and each item's outcome is the outcome under them.
C13_Step ==
  /\ RequestBegins => current_mappings' = MAPPINGS'
  /\ pc = "loop" => current_mappings' = current_mappings
  /\ ItemStep => \E db_ok \in BOOLEAN : Record(ProcessItem(ThisItem, ThisMaps, db_ok))
C13_BatchKeepsItsSnapshot == [][C13_Step]_vars
\* a reload between the two items of a batch replaced the global mappings
\* by a version under which the items are rejected, and the second item
\* was inserted like the first
C13_Witness ==
  /\ pc = "loop"
  /\ idx = 2
  /\ Len(items) = 2
  /\ reload.mid_batch
  /\ source \in DOMAIN MAPPINGS
  /\ MAPPINGS[source] # current_mappings[source]
  /\ ~ProcessItem(items[2], MAPPINGS[source], TRUE).inserted
  /\ inserted = 2

\* load_mappings is called in this step: by POST /machines (never forced)
\* or by another handler
LoadCall(force) ==
  \/ ~force /\ RequestBegins
  \/ reload'.n = reload.n + 1 /\ reload'.force = force
\* the call attempts a reload that fails while mappings are loaded
FailedReload(force) ==
  /\ LoadCall(force)
  /\ ReloadFails(force, MAPPINGS_LAST_MODIFIED)
  /\ DOMAIN MAPPINGS # {}
\* the call leaves both globals as they were
GlobalsKept == MAPPINGS' = MAPPINGS /\ MAPPINGS_LAST_MODIFIED' = MAPPINGS_LAST_MODIFIED
\* a non-forced call made now would attempt the reload again
WouldRetry == file_exists /\ file_mtime > MAPPINGS_LAST_MODIFIED'

\* C14 (as stated): when load_mappings attempts a reload that fails while
\* non-empty mappings are loaded, MAPPINGS and MAPPINGS_LAST_MODIFIED are
\* left unchanged and every later non-forced call retries the reload;
\* a non-forced call with the file missing keeps the loaded mappings.
C14_Stated ==
  /\ \A force \in BOOLEAN : FailedReload(force) => (GlobalsKept /\ WouldRetry)
  /\ (LoadCall(FALSE) /\ ~file_exists /\ DOMAIN MAPPINGS # {}) => GlobalsKept
C14_FailedReloadAlwaysRetried == [][C14_Stated]_vars
\* C14 (amended): when load_mappings attempts a reload that fails while
\* non-empty mappings are loaded, MAPPINGS and MAPPINGS_LAST_MODIFIED are
\* left unchanged; a later non-forced call retries the reload provided the
\* file's modification time is newer than the recorded one, which is so
\* whenever the failed attempt was not forced; a non-forced call with the
\* file missing keeps the loaded mappings.
C14_Amended ==
  /\ \A force \in BOOLEAN :
       FailedReload(force) =>
         /\ GlobalsKept
         /\ WouldRetry <=> file_mtime > MAPPINGS_LAST_MODIFIED
         /\ ~force => WouldRetry
  /\ (LoadCall(FALSE) /\ ~file_exists /\ DOMAIN MAPPINGS # {}) => GlobalsKept
C14_FailedReloadKeepsGlobals == [][C14_Amended]_vars
\* a non-forced call has just logged a failed reload of a newer, broken file
\* and the configuration loaded at start-up is still in place
C14_Witness ==
  /\ reload.n = 1
  /\ reload.failed
  /\ ~reload.force
  /\ file_exists
  /\ file_content.kind # "json"
  /\ MAPPINGS = CONFIG_MAIN
  /\ MAPPINGS_LAST_MODIFIED = 1
  /\ file_mtime > MAPPINGS_LAST_MODIFIED

====
